---- MODULE Spec2Model ----
(***************************************************************************)
(* A model of de_wiktio's entry extraction pipeline (src/de_wiktio/entry.py)*)
(* together with the two document sources it reads from                    *)
(* (src/de_wiktio/fetch.py).                                               *)
(*                                                                         *)
(* Strings the code inspects (template names, parameter names and values,  *)
(* heading titles) are sequences of fragments: a fragment is a run of      *)
(* characters that no string of the corpus splits.  Parameter names are    *)
(* spelled character by character, because the code searches them for a    *)
(* substring and tests them with str.isnumeric.  Titles and status strings *)
(* are only built and compared, and are plain strings.                     *)
(*                                                                         *)
(* Wikitext is modelled parsed: a text is the sequence of top-level nodes  *)
(* that mwparserfromhell.parse gives for it (headings, templates, text).   *)
(* An optional value (None or a value) is a sequence of length 0 or 1.     *)
(***************************************************************************)
EXTENDS Naturals, Sequences, FiniteSets, TLC

(***************************************************************************)
(* Bounds of the model.                                                    *)
(***************************************************************************)
\* the largest number of companion lookups counted for one WordForm
MaxLookups == 3
\* the largest number of archive loads counted for one class
MaxLoads == 2
\* the largest number of tree traversals counted for one memoized accessor
MaxTrav == 2
\* the largest number of parameters of a generated overview template
MaxParams == 2

None == <<>>

Some(x) == <<x>>

(***************************************************************************)
(* Strings.                                                                *)
(***************************************************************************)
Digits == {"0", "1", "2"}

Whitespace == {" "}

\* sub in s
Contains(s, sub) ==
    \E i \in 0..Len(s) : i + Len(sub) <= Len(s) /\ SubSeq(s, i + 1, i + Len(sub)) = sub

\* str.strip()
RECURSIVE LStrip(_)
LStrip(s) == IF s # <<>> /\ Head(s) \in Whitespace THEN LStrip(Tail(s)) ELSE s

RECURSIVE RStrip(_)
RStrip(s) ==
    IF s # <<>> /\ s[Len(s)] \in Whitespace THEN RStrip(SubSeq(s, 1, Len(s) - 1)) ELSE s

Strip(s) == RStrip(LStrip(s))

\* str.isnumeric(): a non-empty string of numeric characters
IsNumeric(s) == s # <<>> /\ \A i \in 1..Len(s) : s[i] \in Digits

RECURSIVE Flatten(_)
Flatten(ss) == IF ss = <<>> THEN <<>> ELSE Head(ss) \o Flatten(Tail(ss))

RECURSIVE SelectIndices(_, _, _)
\* the indices i of 1..n, in order, with Keep[i]
SelectIndices(i, n, Keep) ==
    IF i > n THEN <<>>
    ELSE (IF Keep[i] THEN <<i>> ELSE <<>>) \o SelectIndices(i + 1, n, Keep)

(***************************************************************************)
(* Nodes of parsed wikitext.                                               *)
(***************************************************************************)
Param(n, v, k) == [name |-> n, value |-> v, showkey |-> k]

\* a positional parameter |value
Pos(i, v) == Param(<<i>>, v, FALSE)

\* a keyword parameter |name=value
Kw(n, v) == Param(n, v, TRUE)

NoTpl == [name |-> <<>>, params |-> <<>>]

Tpl(name, params) ==
    [kind |-> "template", level |-> 0, title |-> <<>>,
     tpl |-> [name |-> name, params |-> params], text |-> <<>>]

Txt(s) == [kind |-> "text", level |-> 0, title |-> <<>>, tpl |-> NoTpl, text |-> s]

\* a heading of the given level; its title is a sequence of template and text nodes
Hd(level, title) ==
    [kind |-> "heading", level |-> level, title |-> title, tpl |-> NoTpl, text |-> <<>>]

\* str(parameter)
RenderParam(p) == IF p.showkey THEN p.name \o <<"=">> \o p.value ELSE p.value

\* str(template)
RenderTpl(t) ==
    <<"{{">> \o t.name
        \o Flatten([i \in 1..Len(t.params) |-> <<"|">> \o RenderParam(t.params[i])])
        \o <<"}}">>

\* str(node) of a template or text node
RenderInline(n) == IF n.kind = "template" THEN RenderTpl(n.tpl) ELSE n.text

\* str(heading.title)
RenderTitle(h) == Flatten([i \in 1..Len(h.title) |-> RenderInline(h.title[i])])

(***************************************************************************)
(* The Wikicode operations the code calls (mwparserfromhell).  A pattern   *)
(* is a literal string searched in the rendered node; the empty pattern is *)
(* "no matches argument".                                                  *)
(***************************************************************************)
Matches(pat, s) == pat = <<>> \/ Contains(s, pat)

HeadingIndices(nodes) ==
    SelectIndices(1, Len(nodes), [i \in 1..Len(nodes) |-> nodes[i].kind = "heading"])

\* where the section opened by the heading at index i ends (exclusive)
SectionEnd(nodes, i, flat) ==
    LET closers == {j \in (i + 1)..Len(nodes) :
                       /\ nodes[j].kind = "heading"
                       /\ (flat \/ nodes[j].level <= nodes[i].level)}
    IN  IF closers = {} THEN Len(nodes) + 1
        ELSE CHOOSE j \in closers : \A k \in closers : j <= k

\* Wikicode.get_sections(levels, matches, flat, include_headings): the lead
\* section is included when neither levels nor matches is given; the sections
\* come in the order of their headings
GetSections(nodes, levels, pat, flat, include_headings) ==
    LET hs == HeadingIndices(nodes)
        lead == IF levels = {} /\ pat = <<>>
                THEN <<SubSeq(nodes, 1, IF hs = <<>> THEN Len(nodes) ELSE hs[1] - 1)>>
                ELSE <<>>
        keep == [k \in 1..Len(hs) |->
                    /\ Matches(pat, RenderTitle(nodes[hs[k]]))
                    /\ (levels = {} \/ nodes[hs[k]].level \in levels)]
        kept == SelectIndices(1, Len(hs), keep)
        section(i) == SubSeq(nodes, IF include_headings THEN i ELSE i + 1,
                             SectionEnd(nodes, i, flat) - 1)
    IN  lead \o [k \in 1..Len(kept) |-> section(hs[kept[k]])]

\* the templates of one node, in document order (a heading holds those of its title)
NodeTemplates(n) ==
    IF n.kind = "template" THEN <<n.tpl>>
    ELSE IF n.kind = "heading"
         THEN LET idx == SelectIndices(1, Len(n.title),
                             [i \in 1..Len(n.title) |-> n.title[i].kind = "template"])
              IN  [k \in 1..Len(idx) |-> n.title[idx[k]].tpl]
         ELSE <<>>

\* Wikicode.filter_templates(matches=pat)
FilterTemplates(nodes, pat) ==
    LET all == Flatten([i \in 1..Len(nodes) |-> NodeTemplates(nodes[i])])
        idx == SelectIndices(1, Len(all),
                   [i \in 1..Len(all) |-> Matches(pat, RenderTpl(all[i]))])
    IN  [k \in 1..Len(idx) |-> all[idx[k]]]

\* Wikicode.filter_headings()
FilterHeadings(nodes) ==
    LET hs == HeadingIndices(nodes) IN [k \in 1..Len(hs) |-> nodes[hs[k]]]

\* Template.get(name, default=None): the last parameter of that name, or None
TemplateGet(t, name) ==
    LET hits == {i \in 1..Len(t.params) : Strip(t.params[i].name) = name}
    IN  IF hits = {} THEN None
        ELSE Some(t.params[CHOOSE i \in hits : \A j \in hits : j <= i])

(***************************************************************************)
(* Tools.template_to_dict: a dictionary is the sequence of its items in    *)
(* insertion order; a repeated key keeps its place and takes the last value.*)
(***************************************************************************)
DictKeys(d) == {d[i].k : i \in 1..Len(d)}

DictSet(d, k, v) ==
    IF k \in DictKeys(d)
    THEN [i \in 1..Len(d) |-> IF d[i].k = k THEN [k |-> k, v |-> v] ELSE d[i]]
    ELSE Append(d, [k |-> k, v |-> v])

RECURSIVE DictFromParams(_, _)
DictFromParams(d, ps) ==
    IF ps = <<>> THEN d
    ELSE DictFromParams(DictSet(d, Strip(Head(ps).name), Strip(Head(ps).value)), Tail(ps))

template_to_dict(template) == DictFromParams(<<>>, template.params)

(***************************************************************************)
(* The corpus: the pages of the wiki, as the network export and the dump   *)
(* files hold them.                                                        *)
(***************************************************************************)
Bild == <<"B", "i", "l", "d">>

Genus == <<"G", "e", "n", "u", "s">>

Sprache(lang) == Tpl(<<"Sprache">>, <<Pos("1", <<lang>>)>>)

\* == word ({{Sprache|lang}}) ==
H2(word, lang) == Hd(2, <<Txt(<<word, " (">>), Sprache(lang), Txt(<<")">>)>>)

\* === {{Wortart|pos|Deutsch}} ===
H3(pos) == Hd(3, <<Tpl(<<"Wortart">>, <<Pos("1", pos), Pos("2", <<"Deutsch">>)>>)>>)

\* ==== Übersetzungen ====
H4 == Hd(4, <<Txt(<<"Übersetzungen">>)>>)

Uebersicht(pos, params) == Tpl(<<"Deutsch", " ", pos, " ", "Übersicht">>, params)

Bedeutungen == Tpl(<<"Bedeutungen">>, <<>>)

DocHaus ==
    <<H2("Haus", "Deutsch"), H3(<<"Substantiv">>),
      Uebersicht("Substantiv", <<Pos("1", <<"Hauses">>), Kw(Bild, <<"x.png">>)>>),
      Bedeutungen, Txt(<<"Gebäude">>)>>

DocGehen ==
    <<H2("gehen", "Deutsch"), H3(<<"Verb">>),
      Uebersicht("Verb", <<Kw(Genus \o <<" ">>, <<" ", "geht">>),
                           Kw(Bild \o <<" ", "1">>, <<"y.png">>),
                           Kw(<<" ", "2", " ">>, <<"ging">>),
                           Kw(Genus, <<"gegangen", " ">>)>>),
      Bedeutungen, Txt(<<"laufen">>),
      H4, Tpl(<<"Ü-Tabelle">>, <<Kw(Genus, <<"go">>)>>)>>

\* two word forms, the first with a nested level-4 subsection
DocSein ==
    <<Tpl(<<"Siehe auch">>, <<Pos("1", <<"Sein">>)>>),
      H2("sein", "Deutsch"),
      H3(<<"Verb">>), Uebersicht("Verb", <<Kw(Genus, <<"ist">>)>>),
      H4, Tpl(<<"Ü-Tabelle">>, <<>>),
      H3(<<"Possessivpronomen">>),
      Uebersicht("Possessivpronomen", <<Pos("1", <<"seiner">>)>>),
      Uebersicht("Possessivpronomen", <<Kw(Bild, <<"z.png">>), Kw(Genus, <<"m">>)>>),
      H2("sein", "Englisch"), H3(<<"Verb">>)>>

\* an adjective
DocLaut ==
    <<H2("laut", "Deutsch"), H3(<<"Adjektiv">>),
      Uebersicht("Adjektiv", <<Kw(Genus, <<"lauter">>)>>)>>

\* two German sections
DocBand ==
    <<H2("Band", "Deutsch"), H3(<<"Substantiv">>),
      H2("Band", "Deutsch"), H3(<<"Verb">>)>>

\* no German section
DocHouse == <<H2("house", "Englisch"), H3(<<"Substantiv">>)>>

\* a German section without word forms
DocLeer == <<H2("leer", "Deutsch"), Txt(<<"Wortart">>), Bedeutungen>>

\* word forms without a part of speech: {{Wortart||Deutsch}}, and a heading
\* that names Wortart without a template
DocNix ==
    <<H2("nix", "Deutsch"),
      H3(<<>>), Uebersicht("Pronomen", <<Kw(Genus, <<"nichts">>)>>),
      Hd(3, <<Txt(<<"Wortart", " ", "unbekannt">>)>>)>>

FlexHd(word) ==
    Hd(2, <<Txt(<<word, " (Konjugation) (">>),
            Tpl(<<"Verb", "konjugation">>, <<Pos("1", <<"Deutsch">>)>>), Txt(<<")">>)>>)

FlexTpl(pos, forms) == Tpl(<<"Deutsch", " ", pos, " ", "regelmäßig">>, forms)

\* one flexion template
FlexGehen ==
    <<FlexHd("gehen"), FlexTpl("Verb", <<Pos("2", <<"geh">>), Kw(Genus, <<"ging">>)>>)>>

\* one flexion template below a level-3 heading
FlexSein ==
    <<FlexHd("sein"), Hd(3, <<Txt(<<"Indikativ">>)>>),
      FlexTpl("Verb", <<Pos("2", <<"sei">>)>>)>>

\* templates of two categories
FlexLaut ==
    <<FlexHd("laut"), FlexTpl("Adjektiv", <<Pos("2", <<"laut">>)>>),
      FlexTpl("Adverb", <<Pos("2", <<"laut">>)>>)>>

\* two templates of the same category
FlexDoppel ==
    <<FlexHd("doppel"), FlexTpl("Verb", <<Pos("2", <<"doppel">>)>>),
      FlexTpl("Verb", <<Kw(Genus, <<"doppelte">>)>>)>>

\* a template of no category beside a flexion template
FlexHaus ==
    <<FlexHd("Haus"), Tpl(<<"Navigationsleiste">>, <<>>),
      FlexTpl("Verb", <<Pos("2", <<"haus">>)>>)>>

\* a single template of no category
FlexNix == <<FlexHd("nix"), Tpl(<<"Navigationsleiste">>, <<>>)>>

\* no templates
FlexLeer == <<FlexHd("leer"), Txt(<<"in Arbeit">>)>>

\* no German section
FlexHouse == <<H2("Flexion:house", "Englisch"), FlexTpl("Verb", <<>>)>>

FlexionTitle(title) == "Flexion:" \o title

\* the value of the dict_path argument: None is the folder of Settings
DictPaths == {"None", "alt", "missing"}

\* the pickle files wikidict_{ns}.pkl that exist, and the dictionary each holds
Pickles ==
    [f \in {<<"0", "None">>, <<"108", "None">>, <<"0", "alt">>, <<"108", "alt">>} |->
        CASE f = <<"0", "None">> ->
                ("Haus" :> DocHaus) @@ ("gehen" :> DocGehen) @@ ("sein" :> DocSein)
                @@ ("laut" :> DocLaut) @@ ("Band" :> DocBand) @@ ("house" :> DocHouse)
                @@ ("leer" :> DocLeer) @@ ("nix" :> DocNix)
          [] f = <<"108", "None">> ->
                (FlexionTitle("gehen") :> FlexGehen) @@ (FlexionTitle("sein") :> FlexSein)
                @@ (FlexionTitle("laut") :> FlexLaut) @@ (FlexionTitle("Haus") :> FlexHaus)
                @@ (FlexionTitle("nix") :> FlexNix) @@ (FlexionTitle("leer") :> FlexLeer)
                @@ (FlexionTitle("house") :> FlexHouse)
                @@ (FlexionTitle("doppel") :> FlexDoppel)
          [] f = <<"0", "alt">> -> ("Haus" :> DocLeer) @@ ("Ghost" :> DocGehen)
          [] f = <<"108", "alt">> -> (FlexionTitle("gehen") :> FlexLaut)]

\* the titles a caller asks for
Titles ==
    {"Haus", "gehen", "sein", "laut", "Band", "house", "leer", "nix", "Ghost",
     FlexionTitle("gehen"), FlexionTitle("sein"), FlexionTitle("laut"),
     FlexionTitle("Haus"), FlexionTitle("nix"), FlexionTitle("leer"),
     FlexionTitle("house"), FlexionTitle("Ghost"), FlexionTitle("doppel")}

(***************************************************************************)
(* The document sources (src/de_wiktio/fetch.py).                          *)
(***************************************************************************)
\* the pages of the live wiki: those of the dump, each with its namespace
WikiPages ==
    [t \in DOMAIN Pickles[<<"0", "None">>] \cup DOMAIN Pickles[<<"108", "None">>] |->
        IF t \in DOMAIN Pickles[<<"0", "None">>]
        THEN [wikitext |-> Pickles[<<"0", "None">>][t], ns |-> "0"]
        ELSE [wikitext |-> Pickles[<<"108", "None">>][t], ns |-> "108"]]

\* PageExport(title): wikitext and ns are '' for a page that does not exist
PageExport(title) ==
    IF title \in DOMAIN WikiPages THEN WikiPages[title] ELSE [wikitext |-> <<>>, ns |-> ""]

\* WikiDump.load_wikidict_by_ns: the file that is read, None when it does not
\* exist (FileNotFoundError)
load_wikidict_by_ns(path, ns) ==
    IF <<ns, path>> \in DOMAIN Pickles THEN Some(<<ns, path>>) ELSE None

\* wikidict.get(title, '')
DictGet(file, title) ==
    IF title \in DOMAIN Pickles[file] THEN Pickles[file][title] ELSE <<>>

(***************************************************************************)
(* Instance attributes.  A name is spelled with its leading underscores    *)
(* apart: _pos is <<"_", "pos">>.  hasattr looks a name up as it is        *)
(* written; an assignment self.name = v in the body of a class stores      *)
(* under the name Python's private name mangling gives.                    *)
(***************************************************************************)
\* the name an identifier of a class body stands for: __x is _Class__x
Mangle(cls, name) ==
    IF /\ Len(name) > 2 /\ name[1] = "_" /\ name[2] = "_"
       /\ ~(name[Len(name)] = "_" /\ name[Len(name) - 1] = "_")
    THEN <<"_", cls>> \o name
    ELSE name

hasattr(self, name) == name \in self.attrs

\* self.name = ... in the body of class cls: the attribute names afterwards
SetAttr(self, cls, name) == self.attrs \cup {Mangle(cls, name)}

(***************************************************************************)
(* _EntryBase and its subclasses.                                          *)
(***************************************************************************)
Classes == {"_EntryBase", "Entry", "EntryFlexion"}

NS(cls) == IF cls = "EntryFlexion" THEN "108" ELSE "0"

OK == <<"OK">>

NoContentExport(title) == <<"No content for ", title, " in exported page">>

WrongNamespace(title) == <<"No proper wiki namespace found for ", title>>

NoContentDump(title) == <<"No content for ", title, " in dump file">>

AmbiguousSection(title) == <<"More than one German section found for ", title>>

NoSection(title) == <<"No German section found for ", title>>

NoWordForms(title) == <<"No German word forms for ", title>>

NoPOS(title) == <<"No POS found for ", title>>

MultiplePOS(title) == <<"Multiple POS found for ", title>>

NoFlexionTemplates == <<"No German flexion templates">>

MultipleFlexionTemplates == <<"Multiple German flexion templates">>

\* the attribute cls.WIKIDICT as Python resolves it: the class's own attribute
\* once the class has been assigned one, else the attribute of _EntryBase
ClassWIKIDICT(W, cls) == IF W[cls] # None THEN W[cls] ELSE W["_EntryBase"]

\* _EntryBase.get_wikidict as reloading whenever a dict_path is passed
get_wikidict_reload(W, cls, dict_path) ==
    IF ClassWIKIDICT(W, cls) # None /\ dict_path = "None"
    THEN [W |-> W, dict |-> ClassWIKIDICT(W, cls), loaded |-> FALSE]
    ELSE LET dict == load_wikidict_by_ns(dict_path, NS(cls))
         IN  [W |-> IF dict = None THEN W ELSE [W EXCEPT ![cls] = dict],
              dict |-> dict, loaded |-> TRUE]

\* _EntryBase.get_wikidict: the class attributes after the call, the dictionary
\* returned (None when the load raised) and whether a load was attempted
get_wikidict(W, cls, dict_path) ==
    IF ClassWIKIDICT(W, cls) # None
    THEN [W |-> W, dict |-> ClassWIKIDICT(W, cls), loaded |-> FALSE]
    ELSE LET dict == load_wikidict_by_ns(dict_path, NS(cls))
         IN  [W |-> IF dict = None THEN W ELSE [W EXCEPT ![cls] = dict],
              dict |-> dict, loaded |-> TRUE]

\* _EntryBase.__init__.  attrs holds the names of the lazily set attributes the
\* instance has; pos and flexion_tpls are the values of _pos and _flexion_tpls;
\* trav counts the traversals of the section tree made for the instance
EntryBase_init(cls, title, wikitext, status, extracted_from) ==
    [cls |-> cls, title |-> title, text |-> wikitext, status |-> status,
     extracted_from |-> extracted_from, german |-> None,
     attrs |-> {}, pos |-> <<>>, flexion_tpls |-> <<>>, trav |-> 0]

\* self.parsed.get_sections(levels=[2], matches=r"\|Deutsch")
GermanSections(self) == GetSections(self.text, {2}, <<"|", "Deutsch">>, FALSE, TRUE)

\* the choice among the sections found, were the first of several taken
ChooseSectionFirst(self, sections) ==
    IF Len(sections) >= 1 THEN [status |-> self.status, german |-> Some(sections[1])]
    ELSE [status |-> NoSection(self.title), german |-> None]

\* _EntryBase._get_section_de, after the search: the status it leaves and the
\* section it returns
ChooseSection(self, sections) ==
    IF Len(sections) = 1 THEN [status |-> self.status, german |-> Some(sections[1])]
    ELSE IF Len(sections) > 1
         THEN [status |-> AmbiguousSection(self.title), german |-> None]
         ELSE [status |-> NoSection(self.title), german |-> None]

\* _EntryBase._get_section_de
get_section_de(self) == ChooseSection(self, GermanSections(self))

\* self.german = self._get_section_de()
SetGerman(self, r) == [self EXCEPT !.status = r.status, !.german = r.german]

\* Entry.__init__ and EntryFlexion.__init__ (and _EntryBase.__init__ for the
\* base class): german is computed whatever the status
Init_subclass(self) == IF self.cls = "_EntryBase" THEN self ELSE SetGerman(self, get_section_de(self))

New(cls, title, wikitext, status, extracted_from) ==
    Init_subclass(EntryBase_init(cls, title, wikitext, status, extracted_from))

\* _EntryBase.from_export
from_export(cls, title) ==
    LET fetched == PageExport(title)
    IN  IF fetched.wikitext = <<>>
        THEN New(cls, title, fetched.wikitext, NoContentExport(title), "from export")
        ELSE IF fetched.ns # NS(cls)
             THEN New(cls, title, <<>>, WrongNamespace(title), "from export")
             ELSE New(cls, title, fetched.wikitext, OK, "from export")

\* _EntryBase.from_dump, given the dictionary get_wikidict returned
from_dump(cls, title, wikidict) ==
    LET wikitext == DictGet(wikidict, title)
    IN  New(cls, title, wikitext,
            IF wikitext # <<>> THEN OK ELSE NoContentDump(title), "from dump")

(***************************************************************************)
(* Entry and EntryFlexion accessors.  Each gives the instance after the    *)
(* call, the value returned and the number of tree traversals made.        *)
(***************************************************************************)
Result(self, val, trav) == [self |-> self, val |-> val, trav |-> trav]

\* WordForm.__init__.  flexionseite is the value last stored by
\* self.__flexionseite = ...; lookups counts the companion lookups made for the
\* word form, and serial is the number of the lookup that gave flexionseite;
\* trav counts the traversals of the section, by what they look for; entry is
\* the reference to the Entry, which its title stands for
WordForm_init(wordform, entry) ==
    [wordform |-> wordform, status |-> OK, entry |-> entry.title, attrs |-> {},
     wortart_tpls |-> <<>>, pos |-> <<>>, uebersichten_tpls |-> <<>>,
     flexionseite |-> None, lookups |-> 0, serial |-> 0,
     trav |-> [wortart |-> 0, uebersicht |-> 0, heading |-> 0]]

\* Entry.wordforms, after the search for the sections
wordforms_found(self, sections) ==
    Result([self EXCEPT
               !.attrs = SetAttr(self, "Entry", <<"_", "wordforms">>),
               !.status = IF Len(sections) = 0 THEN NoWordForms(self.title) ELSE @,
               !.trav = @ + 1],
           [i \in 1..Len(sections) |-> WordForm_init(sections[i], self)], 1)

\* the sections of the word forms, were they not flat
WortartSectionsNested(self) == GetSections(self.german[1], {3}, <<"Wortart">>, FALSE, TRUE)

\* self.german.get_sections(levels=[3], matches="Wortart", flat=True)
WortartSections(self) == GetSections(self.german[1], {3}, <<"Wortart">>, TRUE, TRUE)

\* Entry.wordforms, were the sections searched at every call
wordforms_no_memo(self, forms) ==
    IF self.status # OK THEN Result(self, <<>>, 0)
    ELSE wordforms_found(self, WortartSections(self))

\* Entry.wordforms, were the status not looked at
wordforms_no_status(self, forms) ==
    IF hasattr(self, <<"_", "wordforms">>) THEN Result(self, forms, 0)
    ELSE wordforms_found(self, IF self.german = None THEN <<>> ELSE WortartSections(self))

\* Entry.wordforms; forms is the list self._wordforms holds when it is set
wordforms(self, forms) ==
    IF hasattr(self, <<"_", "wordforms">>) THEN Result(self, forms, 0)
    ELSE IF self.status # OK THEN Result(self, <<>>, 0)
    ELSE wordforms_found(self, WortartSections(self))

\* the templates of self.german.get_sections(include_headings=False), section
\* by section
BodyTemplates(body) == Flatten([i \in 1..Len(body) |-> FilterTemplates(body[i], <<>>)])

\* EntryFlexion.flexion_tpls, after the templates are collected
flexion_tpls_found(self, tpls) ==
    Result([self EXCEPT
               !.attrs = SetAttr(self, "EntryFlexion", <<"_", "flexion_tpls">>),
               !.flexion_tpls = tpls,
               !.status = IF tpls = <<>> THEN NoFlexionTemplates
                          ELSE IF Len(tpls) > 1 THEN MultipleFlexionTemplates
                          ELSE @,
               !.trav = @ + 1],
           tpls, 1)

\* EntryFlexion.flexion_tpls, were the status not looked at and the whole page
\* searched when there is no German section
flexion_tpls_whole_page(self) ==
    IF hasattr(self, <<"_", "flexion_tpls">>) THEN Result(self, self.flexion_tpls, 0)
    ELSE flexion_tpls_found(self,
             BodyTemplates(GetSections(IF self.german = None THEN self.text
                                       ELSE self.german[1], {}, <<>>, FALSE, FALSE)))

\* EntryFlexion.flexion_tpls
flexion_tpls(self) ==
    IF hasattr(self, <<"_", "flexion_tpls">>) THEN Result(self, self.flexion_tpls, 0)
    ELSE IF self.status # OK THEN Result(self, <<>>, 0)
    ELSE flexion_tpls_found(self,
             BodyTemplates(GetSections(self.german[1], {}, <<>>, FALSE, FALSE)))

POSTokens == <<"Adjektiv", "Verb", "Adverb", "Gerundivum", "Numerale">>

\* re.search(r"(Adjektiv|Verb|Adverb|Gerundivum|Numerale)", name): the leftmost
\* match, None when there is none
SearchPOS(name) ==
    LET hits == {i \in 1..Len(name) : \E k \in 1..Len(POSTokens) : name[i] = POSTokens[k]}
    IN  IF hits = {} THEN None ELSE Some(name[CHOOSE i \in hits : \A j \in hits : i <= j])

\* the matches of the names of the templates, in order
CategoryMatches(tpls) == Flatten([i \in 1..Len(tpls) |-> SearchPOS(tpls[i].name)])

\* the status EntryFlexion.pos leaves, were a single match to record success
EntryFlexion_pos_status_ok(status, pos, title) ==
    IF Len(pos) > 1 THEN MultiplePOS(title)
    ELSE IF pos = <<>> THEN NoPOS(title)
    ELSE OK

\* the status EntryFlexion.pos leaves, given the status flexion_tpls left and
\* the matches collected
EntryFlexion_pos_status(status, pos, title) ==
    IF Len(pos) > 1 THEN MultiplePOS(title)
    ELSE IF pos = <<>> THEN NoPOS(title)
    ELSE status

\* EntryFlexion.pos, after the matches are collected
EntryFlexion_pos_found(r, pos) ==
    Result([r.self EXCEPT
               !.attrs = SetAttr(r.self, "EntryFlexion", <<"_", "pos">>),
               !.pos = pos,
               !.status = EntryFlexion_pos_status(r.self.status, pos, r.self.title)],
           pos, r.trav)

\* EntryFlexion.pos, after flexion_tpls
EntryFlexion_pos_collect(r) == EntryFlexion_pos_found(r, CategoryMatches(r.val))

\* EntryFlexion.pos
EntryFlexion_pos(self) ==
    IF hasattr(self, <<"_", "pos">>) THEN Result(self, self.pos, 0)
    ELSE IF self.status # OK THEN Result(self, <<>>, 0)
    ELSE EntryFlexion_pos_collect(flexion_tpls(self))

\* [Tools.template_to_dict(template) for template in ...]
TemplatesToDicts(r) ==
    Result(r.self, [i \in 1..Len(r.val) |-> template_to_dict(r.val[i])], r.trav)

\* EntryFlexion.inflections
EntryFlexion_inflections(self) == TemplatesToDicts(flexion_tpls(self))

(***************************************************************************)
(* WordForm.                                                               *)
(***************************************************************************)
\* WordForm.heading (one traversal: filter_headings)
heading(self) == FilterHeadings(self.wordform)[1]

NoWortartTemplate(self) == <<"No Wortart template found for ">> \o RenderTitle(heading(self))

WordForm_NoPOS(self) == <<"No POS found for ">> \o RenderTitle(heading(self))

\* WordForm.wortart_tpls, after the search
wortart_tpls_found(self, tpls) ==
    Result([self EXCEPT
               !.attrs = SetAttr(self, "WordForm", <<"_", "wortart_tpls">>),
               !.wortart_tpls = tpls,
               !.status = IF Len(tpls) = 0 THEN NoWortartTemplate(self) ELSE @,
               !.trav.wortart = @ + 1,
               !.trav.heading = IF Len(tpls) = 0 THEN @ + 1 ELSE @],
           tpls, IF Len(tpls) = 0 THEN 2 ELSE 1)

\* WordForm.wortart_tpls
wortart_tpls(self) ==
    IF hasattr(self, <<"_", "wortart_tpls">>) THEN Result(self, self.wortart_tpls, 0)
    ELSE wortart_tpls_found(self, FilterTemplates(self.wordform, <<"Wortart">>))

\* tpl.get('1', default=None), as a list: empty when there is no such parameter
\* or it renders as the empty string, else str(tpl.get('1'))
FirstParam(p) == IF p # None /\ RenderParam(p[1]) # <<>> THEN <<RenderParam(p[1])>> ELSE <<>>

\* [str(tpl.get('1')) for tpl in tpls if tpl.get('1', default=None)]
FirstParams(tpls) ==
    Flatten([i \in 1..Len(tpls) |-> FirstParam(TemplateGet(tpls[i], <<"1">>))])

\* WordForm.pos, after the parts of speech are read
WordForm_pos_found(r, pos) ==
    Result([r.self EXCEPT
               !.attrs = SetAttr(r.self, "WordForm", <<"_", "pos">>),
               !.pos = pos,
               !.status = IF pos = <<>> THEN WordForm_NoPOS(r.self) ELSE @,
               !.trav.heading = IF pos = <<>> THEN @ + 1 ELSE @],
           pos, r.trav + (IF pos = <<>> THEN 1 ELSE 0))

\* WordForm.pos, after wortart_tpls
WordForm_pos_collect(r) == WordForm_pos_found(r, FirstParams(r.val))

\* WordForm.pos
WordForm_pos(self) ==
    IF hasattr(self, <<"_", "pos">>) THEN Result(self, self.pos, 0)
    ELSE WordForm_pos_collect(wortart_tpls(self))

\* WordForm.übersichten_tpls, after the search
uebersichten_tpls_found(self, tpls) ==
    Result([self EXCEPT
               !.attrs = SetAttr(self, "WordForm", <<"_", "übersichten_tpls">>),
               !.uebersichten_tpls = tpls,
               !.trav.uebersicht = @ + 1],
           tpls, 1)

\* WordForm.übersichten_tpls
uebersichten_tpls(self) ==
    IF hasattr(self, <<"_", "übersichten_tpls">>) THEN Result(self, self.uebersichten_tpls, 0)
    ELSE uebersichten_tpls_found(self, FilterTemplates(self.wordform, <<"Übersicht">>))

\* the test of a key, were the image marker compared with the whole key
KeepKeyExact(k) == k # Bild /\ ~IsNumeric(k)

\* 'Bild' not in k and not k.isnumeric()
KeepKey(k) == ~Contains(k, Bild) /\ ~IsNumeric(k)

\* the items of d whose key is kept
KeptItems(d, idx) == [j \in 1..Len(idx) |-> d[idx[j]]]

\* {k: v for k, v in flexion.items() if 'Bild' not in k and not k.isnumeric()}
FilterDict(d) ==
    KeptItems(d, SelectIndices(1, Len(d), [i \in 1..Len(d) |-> KeepKey(d[i].k)]))

\* the return of WordForm.inflections(all), given the dictionaries
inflections_return(flexions, all) ==
    IF all THEN flexions ELSE [i \in 1..Len(flexions) |-> FilterDict(flexions[i])]

\* WordForm.inflections(all), after übersichten_tpls
inflections_of(r, all) == Result(r.self, inflections_return(r.val, all), r.trav)

\* WordForm.inflections(all)
WordForm_inflections(self, all) ==
    inflections_of(TemplatesToDicts(uebersichten_tpls(self)), all)

\* the places of a section where a paragraph opens with the template {{name}}
\* alone on its line and goes on with text
ContentParagraphs(nodes, name) ==
    {i \in 1..(Len(nodes) - 1) :
        /\ nodes[i].kind = "template" /\ nodes[i].tpl = [name |-> <<name>>, params |-> <<>>]
        /\ nodes[i + 1].kind = "text"}

\* re.search(pattern, text, re.DOTALL) in other_content_extract: the text of
\* the first such paragraph, None when there is none
SearchContent(nodes, idx) ==
    IF idx = {} THEN None ELSE Some(nodes[(CHOOSE i \in idx : \A j \in idx : i <= j) + 1].text)

\* WordForm.other_content_extract(name): the pages hold plain text in these
\* paragraphs, which strip_code leaves as it is
other_content_extract(self, name) ==
    Result(self, SearchContent(self.wordform, ContentParagraphs(self.wordform, name)), 0)

(***************************************************************************)
(* The companion Flexion page of a word form.  A lookup result carries the *)
(* word form and the class attributes after the call, the value returned,  *)
(* the traversals made, the number of lookups made (io) and whether a      *)
(* dictionary was loaded.                                                  *)
(***************************************************************************)
Access(self, W, val, trav, io, loaded) ==
    [self |-> self, W |-> W, val |-> val, trav |-> trav, io |-> io, loaded |-> loaded]

\* the test of the parts of speech, were any part of speech enough
IsVerbOrAdjektivAny(pos) == pos # <<>>

\* any(word in pos for word in ['Verb', 'Adjektiv'])
IsVerbOrAdjektiv(pos) ==
    \E word \in {<<"Verb">>, <<"Adjektiv">>} : \E i \in 1..Len(pos) : pos[i] = word

\* the source of the companion, were it always the dump
CompanionSourceDump(entry) == "from dump"

\* the source the companion is read from: the export if the entry was, else
\* the dump
CompanionSource(entry) ==
    IF entry.extracted_from = "from export" THEN "from export" ELSE "from dump"

\* title = f'Flexion:{self.entry.title}'
CompanionTitle(entry) == FlexionTitle(entry.title)

\* self.__flexionseite = value, in the body of WordForm
StoreFlexionseite(self, value, serial) ==
    [self EXCEPT !.attrs = SetAttr(self, "WordForm", <<"_", "_", "flexionseite">>),
                 !.flexionseite = value, !.serial = serial]

\* WordForm._flexionseite, after the page is read
flexionseite_found(p, W, page, loaded) ==
    Access(StoreFlexionseite([p.self EXCEPT !.lookups = @ + 1], Some(page),
                             p.self.lookups + 1),
           W, Some(page), p.trav, 1, loaded)

\* self.__flexionseite = EntryFlexion.from_dump(title).  The pickle of the folder
\* of Settings exists, so get_wikidict does not raise here
flexionseite_from_dump(p, g, title) ==
    flexionseite_found(p, g.W, from_dump("EntryFlexion", title, g.dict[1]), g.loaded)

\* WordForm._flexionseite, after self.pos
flexionseite_by_pos(p, W, entry) ==
    IF ~IsVerbOrAdjektiv(p.val)
    THEN Access(StoreFlexionseite(p.self, None, 0), W, None, p.trav, 0, FALSE)
    ELSE IF CompanionSource(entry) = "from export"
         THEN flexionseite_found(p, W, from_export("EntryFlexion", CompanionTitle(entry)),
                                 FALSE)
         ELSE flexionseite_from_dump(p, get_wikidict(W, "EntryFlexion", "None"),
                                     CompanionTitle(entry))

\* hasattr(self, '__flexionseite')
HasFlexionseite(self) == hasattr(self, <<"_", "_", "flexionseite">>)

\* WordForm._flexionseite
flexionseite(self, W, entry) ==
    IF HasFlexionseite(self) THEN Access(self, W, self.flexionseite, 0, 0, FALSE)
    ELSE IF self.status # OK
         THEN Access(StoreFlexionseite(self, None, 0), W, None, 0, 0, FALSE)
         ELSE flexionseite_by_pos(WordForm_pos(self), W, entry)

\* return self._flexionseite.inflections(), after inflections()
inflections_extended_value(a, b, r) ==
    Access([b.self EXCEPT !.flexionseite = Some(r.self)], b.W, r.val,
           a.trav + b.trav + r.trav, a.io + b.io, a.loaded \/ b.loaded)

\* return self._flexionseite.inflections(), after the second self._flexionseite
inflections_extended_return(a, b) ==
    inflections_extended_value(a, b, EntryFlexion_inflections(b.val[1]))

\* WordForm.inflections_extended, after the first self._flexionseite
inflections_extended_if(a, entry) ==
    IF a.val = None THEN Access(a.self, a.W, <<>>, a.trav, a.io, a.loaded)
    ELSE inflections_extended_return(a, flexionseite(a.self, a.W, entry))

\* WordForm.inflections_extended
inflections_extended(self, W, entry) ==
    inflections_extended_if(flexionseite(self, W, entry), entry)
(***************************************************************************)
(* The state: the class attributes WIKIDICT, the number of dictionaries    *)
(* each class has loaded, the entry a caller holds with the word forms of  *)
(* its _wordforms, and a record of the last call and what it returned.     *)
(***************************************************************************)
VARIABLES WIKIDICT, loads, root, wfs, last

vars == <<WIKIDICT, loads, root, wfs, last>>

\* the caller holds no entry
NoObject == [cls |-> "none"]

\* a call: the operation, the class and the word form it was made on (0 for
\* the entry), its argument, the value returned, the status of the object when
\* the call was made (for a constructor, the status passed to __init__), the
\* status after the accessor this one calls first, whether the accessor's
\* attribute was set when the call was made, the traversals and lookups made,
\* whether a dictionary was loaded, whether the call raised
Call(op, cls, target, arg, val, pre, mid, cached, trav, io, loaded, raised) ==
    [op |-> op, cls |-> cls, target |-> target, arg |-> arg, val |-> val, pre |-> pre,
     mid |-> mid, cached |-> cached, trav |-> trav, io |-> io, loaded |-> loaded,
     raised |-> raised]

NoCall == Call("none", "none", 0, "", <<>>, OK, OK, FALSE, 0, 0, FALSE, FALSE)

\* class attribute WIKIDICT = None; nothing constructed
Init ==
    /\ WIKIDICT = [c \in Classes |-> None]
    /\ loads = [c \in Classes |-> 0]
    /\ root = NoObject
    /\ wfs = <<>>
    /\ last = NoCall

\* the caller takes the entry a constructor returned
Hold(op, object, status) ==
    /\ root' = object
    /\ wfs' = <<>>
    /\ last' = Call(op, object.cls, 0, "", <<>>, status, status, FALSE, 0, 0, FALSE, FALSE)

\* the caller lets go of the entry
Drop ==
    /\ root.cls # "none"
    /\ root' = NoObject
    /\ wfs' = <<>>
    /\ last' = NoCall
    /\ UNCHANGED <<WIKIDICT, loads>>

\* the status from_export passes to the constructor
ExportStatus(cls, title) ==
    IF PageExport(title).wikitext = <<>> THEN NoContentExport(title)
    ELSE IF PageExport(title).ns # NS(cls) THEN WrongNamespace(title)
    ELSE OK

\* cls.from_export(title)
FromExport(cls, title) ==
    /\ root.cls = "none"
    /\ Hold("from_export", from_export(cls, title), ExportStatus(cls, title))
    /\ UNCHANGED <<WIKIDICT, loads>>

\* the class attributes after get_wikidict, and the count of loads
Loaded(cls, g) ==
    /\ WIKIDICT' = g.W
    /\ loads' = [loads EXCEPT ![cls] = IF g.loaded /\ g.dict # None THEN @ + 1 ELSE @]
    /\ loads'[cls] <= MaxLoads

\* the status from_dump passes to the constructor
DumpStatus(file, title) == IF DictGet(file, title) # <<>> THEN OK ELSE NoContentDump(title)

\* cls.from_dump(title, dict_path), after get_wikidict: FileNotFoundError is
\* raised through when the pickle does not exist
FromDumpWith(cls, title, dict_path, g) ==
    /\ Loaded(cls, g)
    /\ IF g.dict = None
       THEN /\ last' = Call("from_dump", cls, 0, dict_path, <<>>, OK, OK, FALSE, 0, 0,
                            TRUE, TRUE)
            /\ UNCHANGED <<root, wfs>>
       ELSE /\ root' = from_dump(cls, title, g.dict[1])
            /\ wfs' = <<>>
            /\ last' = Call("from_dump", cls, 0, dict_path, g.dict,
                            DumpStatus(g.dict[1], title), DumpStatus(g.dict[1], title),
                            FALSE, 0, 1, g.loaded, FALSE)

\* cls.from_dump(title, dict_path)
FromDump(cls, title, dict_path) ==
    /\ root.cls = "none"
    /\ FromDumpWith(cls, title, dict_path, get_wikidict(WIKIDICT, cls, dict_path))

\* cls.get_wikidict(dict_path), after the call
GetWikidictWith(cls, dict_path, g) ==
    /\ Loaded(cls, g)
    /\ last' = Call("get_wikidict", cls, 0, dict_path, g.dict, OK, OK, FALSE, 0, 0,
                    g.loaded, g.dict = None)
    /\ UNCHANGED <<root, wfs>>

\* cls.get_wikidict(dict_path)
GetWikidict(cls, dict_path) ==
    /\ root.cls = "none"
    /\ GetWikidictWith(cls, dict_path, get_wikidict(WIKIDICT, cls, dict_path))

\* the status a caller of the constructor passes: the default, or its own
ConstructStatuses == {OK, <<"pending">>}

\* cls(title, wikitext, status): the constructor called with the text of a page
Construct(cls, title, status) ==
    /\ root.cls = "none"
    /\ title \in DOMAIN WikiPages
    /\ Hold("__init__", New(cls, title, WikiPages[title].wikitext, status, "None"), status)
    /\ UNCHANGED <<WIKIDICT, loads>>

\* an accessor of the entry returned r; mid is the status after the accessor
\* it calls first
RootCall(op, r, cached, mid) ==
    /\ r.self.trav <= MaxTrav
    /\ root' = r.self
    /\ last' = Call(op, root.cls, 0, "", r.val, root.status, mid, cached, r.trav, 0, FALSE,
                    FALSE)
    /\ UNCHANGED <<WIKIDICT, loads>>

\* entry.wordforms returned r
WordformsCall(r) ==
    /\ wfs' = r.val
    /\ RootCall("wordforms", [r EXCEPT !.val = Len(r.val)],
                hasattr(root, <<"_", "wordforms">>), root.status)

\* entry.wordforms
Wordforms ==
    /\ root.cls = "Entry"
    /\ WordformsCall(wordforms(root, wfs))

\* the status of the page after the flexion_tpls that pos reads, when it does
FlexionPosMid ==
    IF hasattr(root, <<"_", "pos">>) \/ root.status # OK THEN root.status
    ELSE flexion_tpls(root).self.status

\* page.pos
FlexionPos ==
    /\ root.cls = "EntryFlexion"
    /\ RootCall("pos", EntryFlexion_pos(root), hasattr(root, <<"_", "pos">>), FlexionPosMid)
    /\ UNCHANGED wfs

\* page.flexion_tpls
FlexionTpls ==
    /\ root.cls = "EntryFlexion"
    /\ RootCall("flexion_tpls", flexion_tpls(root), hasattr(root, <<"_", "flexion_tpls">>),
                root.status)
    /\ UNCHANGED wfs

\* page.inflections()
FlexionInflections ==
    /\ root.cls = "EntryFlexion"
    /\ RootCall("inflections", EntryFlexion_inflections(root),
                hasattr(root, <<"_", "flexion_tpls">>), root.status)
    /\ UNCHANGED wfs

\* an accessor of word form i returned r, were the status an attribute the
\* word forms of an entry share
FormCallShared(i, op, arg, r, cached, mid) ==
    /\ r.self.trav.wortart <= MaxTrav
    /\ r.self.trav.uebersicht <= MaxTrav
    /\ wfs' = [j \in 1..Len(wfs) |->
                  IF j = i THEN r.self ELSE [wfs[j] EXCEPT !.status = r.self.status]]
    /\ last' = Call(op, "WordForm", i, arg, r.val, wfs[i].status, mid, cached, r.trav, 0,
                    FALSE, FALSE)
    /\ UNCHANGED <<WIKIDICT, loads, root>>

\* an accessor of word form i returned r
FormCall(i, op, arg, r, cached, mid) ==
    /\ r.self.trav.wortart <= MaxTrav
    /\ r.self.trav.uebersicht <= MaxTrav
    /\ wfs' = [wfs EXCEPT ![i] = r.self]
    /\ last' = Call(op, "WordForm", i, arg, r.val, wfs[i].status, mid, cached, r.trav, 0,
                    FALSE, FALSE)
    /\ UNCHANGED <<WIKIDICT, loads, root>>

\* wordform.wortart_tpls
FormWortartTpls(i) ==
    FormCall(i, "wortart_tpls", "", wortart_tpls(wfs[i]),
             hasattr(wfs[i], <<"_", "wortart_tpls">>), wfs[i].status)

\* the status of the word form after the wortart_tpls that pos reads, when it
\* does
FormPosMid(i) ==
    IF hasattr(wfs[i], <<"_", "pos">>) THEN wfs[i].status
    ELSE wortart_tpls(wfs[i]).self.status

\* wordform.pos
FormPos(i) ==
    FormCall(i, "pos", "", WordForm_pos(wfs[i]), hasattr(wfs[i], <<"_", "pos">>),
             FormPosMid(i))

\* wordform.übersichten_tpls
FormUebersichtenTpls(i) ==
    FormCall(i, "übersichten_tpls", "", uebersichten_tpls(wfs[i]),
             hasattr(wfs[i], <<"_", "übersichten_tpls">>), wfs[i].status)

\* wordform.inflections(all)
FormInflections(i, all) ==
    FormCall(i, "inflections", IF all THEN "True" ELSE "False",
             WordForm_inflections(wfs[i], all),
             hasattr(wfs[i], <<"_", "übersichten_tpls">>), wfs[i].status)

\* the names of content a caller asks for
ContentNames == {"Bedeutungen", "Beispiele"}

\* wordform.other_content_extract(name)
FormOtherContent(i, name) ==
    FormCall(i, "other_content_extract", name, other_content_extract(wfs[i], name), FALSE,
             wfs[i].status)

\* an accessor of word form i that may look the companion page up returned a
CompanionCall(i, op, a) ==
    /\ a.self.lookups <= MaxLookups
    /\ wfs' = [wfs EXCEPT ![i] = a.self]
    /\ WIKIDICT' = a.W
    /\ loads' = [loads EXCEPT !["EntryFlexion"] = IF a.loaded THEN @ + 1 ELSE @]
    /\ last' = Call(op, "WordForm", i, "", a.val, wfs[i].status, wfs[i].status,
                    HasFlexionseite(wfs[i]), a.trav, a.io, a.loaded, FALSE)
    /\ UNCHANGED root

\* wordform._flexionseite
FormFlexionseite(i) == CompanionCall(i, "_flexionseite", flexionseite(wfs[i], WIKIDICT, root))

\* wordform.inflections_extended()
FormInflectionsExtended(i) ==
    CompanionCall(i, "inflections_extended", inflections_extended(wfs[i], WIKIDICT, root))

\* the titles a caller asks the dictionaries of other folders for
CacheTitles == {"Haus", "gehen", "Ghost", FlexionTitle("gehen")}

\* the parameter names and values of a generated overview template
InflKeys ==
    {Bild, Bild \o <<" ", "1">>, <<"1">>, <<"1", "2">>, Genus, <<"1", "a">>, <<" ", "2">>}

InflValues == {<<"x">>, <<" ", "y">>}

InflParams == {Kw(k, v) : k \in InflKeys, v \in InflValues}

\* the parameter lists of at most MaxParams parameters
InflParamLists == UNION {[1..n -> InflParams] : n \in 0..MaxParams}

\* a page with one word form and two overview templates, the first generated
InflDoc(params) ==
    <<H2("Wort", "Deutsch"), H3(<<"Substantiv">>), Uebersicht("Substantiv", params),
      Uebersicht("Substantiv", <<Kw(Genus, <<"n">>)>>)>>

Next ==
    \/ \E cls \in Classes, title \in Titles : FromExport(cls, title)
    \/ \E cls \in Classes, title \in Titles : FromDump(cls, title, "None")
    \/ \E cls \in Classes, title \in Titles, status \in ConstructStatuses :
          Construct(cls, title, status)
    \/ Drop
    \/ Wordforms
    \/ FlexionPos
    \/ FlexionTpls
    \/ FlexionInflections
    \/ \E i \in 1..Len(wfs) : FormWortartTpls(i)
    \/ \E i \in 1..Len(wfs) : FormPos(i)
    \/ \E i \in 1..Len(wfs) : FormUebersichtenTpls(i)
    \/ \E i \in 1..Len(wfs), all \in BOOLEAN : FormInflections(i, all)
    \/ \E i \in 1..Len(wfs) : FormFlexionseite(i)
    \/ \E i \in 1..Len(wfs) : FormInflectionsExtended(i)
    \/ \E i \in 1..Len(wfs), name \in ContentNames : FormOtherContent(i, name)

\* the extraction pipeline over the corpus, dictionaries read from the folder
\* of Settings
Spec == Init /\ [][Next]_vars

NextCache ==
    \/ \E cls \in Classes, title \in CacheTitles, dict_path \in DictPaths :
          FromDump(cls, title, dict_path)
    \/ \E cls \in Classes, dict_path \in DictPaths : GetWikidict(cls, dict_path)
    \/ Drop
    \/ Wordforms
    \/ \E i \in 1..Len(wfs) : FormFlexionseite(i)

\* the dictionaries of the classes, read from any folder
SpecCache == Init /\ [][NextCache]_vars

InitInflections ==
    /\ WIKIDICT = [c \in Classes |-> None]
    /\ loads = [c \in Classes |-> 0]
    /\ \E params \in InflParamLists : root = New("Entry", "Wort", InflDoc(params), OK, "None")
    /\ wfs = <<>>
    /\ last = NoCall

NextInflections ==
    \/ Wordforms
    \/ \E i \in 1..Len(wfs) : FormUebersichtenTpls(i)
    \/ \E i \in 1..Len(wfs), all \in BOOLEAN : FormInflections(i, all)

\* WordForm.inflections over generated overview templates
SpecInflections == InitInflections /\ [][NextInflections]_vars
(***************************************************************************)
(* Properties.                                                             *)
(***************************************************************************)
IsConstructor(op) == op \in {"from_export", "from_dump", "__init__"}

\* 'Verb' or 'Adjektiv' is one of the parts of speech
HasVerbOrAdjektiv(pos) == \E j \in 1..Len(pos) : pos[j] \in {<<"Verb">>, <<"Adjektiv">>}

\* the last call was an accessor that may look the companion page up
IsCompanionCall == last.op \in {"_flexionseite", "inflections_extended"}

\* C1: an Entry made by from_dump for a title the dictionary does not hold has
\* the status 'No content for {title} in dump file' after construction, and its
\* wordforms is the empty list.
C1_NoContentStatus ==
    (root.cls = "Entry" /\ root.extracted_from = "from dump" /\ root.text = <<>>)
        => /\ root.status = NoContentDump(root.title)
           /\ wfs = <<>>
           /\ (last.op = "wordforms" => last.val = 0)

\* Entry.from_dump('Ghost') leaves the status of _get_section_de
C1_GhostStatus ==
    /\ root.cls = "Entry" /\ root.title = "Ghost" /\ last.op = "from_dump"
    /\ last.pre = NoContentDump("Ghost")
    /\ root.status = NoSection("Ghost")

\* the indices of the level-2 headings of a text whose title holds the German
\* marker |Deutsch
GermanHeadings(text) ==
    {i \in 1..Len(text) :
        /\ text[i].kind = "heading" /\ text[i].level = 2
        /\ Contains(RenderTitle(text[i]), <<"|", "Deutsch">>)}

\* the nodes from the heading at i up to the next heading of level 2 or less
SectionAt(text, i) ==
    LET after == {j \in (i + 1)..Len(text) : text[j].kind = "heading" /\ text[j].level <= 2}
    IN  SubSeq(text, i, IF after = {} THEN Len(text)
                        ELSE (CHOOSE j \in after : \A k \in after : j <= k) - 1)

C3_OneLookup ==
    \A i \in 1..Len(wfs) :
        (IsCompanionCall /\ last.target = i /\ last.pre = OK /\ wfs[i].pos = <<<<"Verb">>>>)
            => wfs[i].lookups = 1 /\ wfs[i].serial = 1

\* a single inflections_extended() on a fresh Verb word form makes two lookups
C3_TwoLookups ==
    /\ last.op = "inflections_extended" /\ last.pre = OK /\ last.io = 2
    /\ wfs[last.target].pos = <<<<"Verb">>>>
    /\ wfs[last.target].lookups = 2 /\ wfs[last.target].serial = 2

\* C4: a WordForm has made a companion lookup only if its parts of speech hold
\* 'Verb' or 'Adjektiv'; for any other parts of speech _flexionseite is None,
\* inflections_extended() returns [], and the call makes no lookup and loads no
\* dictionary.
C4_LookupOnlyForVerbOrAdjektiv ==
    \A i \in 1..Len(wfs) :
        /\ wfs[i].lookups > 0 => HasVerbOrAdjektiv(wfs[i].pos)
        /\ (IsCompanionCall /\ last.target = i /\ ~HasVerbOrAdjektiv(wfs[i].pos))
              => /\ last.val = <<>>
                 /\ wfs[i].flexionseite = None
                 /\ last.io = 0 /\ ~last.loaded /\ wfs[i].lookups = 0

\* inflections_extended() was called on a Substantiv word form
C4_Substantiv ==
    /\ last.op = "inflections_extended" /\ last.pre = OK
    /\ wfs[last.target].pos = <<<<"Substantiv">>>>
    /\ last.val = <<>> /\ last.io = 0

\* the companion page word form i holds
Companion(i) == wfs[i].flexionseite[1]

\* C5 as stated: the companion is looked up under 'Flexion:' + the title of the
\* entry, from the network exactly if the entry was made by from_export and
\* from the dictionary exactly if the entry was made by from_dump.
C5_MirrorsOrigin ==
    \A i \in 1..Len(wfs) :
        wfs[i].flexionseite # None
            => /\ Companion(i).title = "Flexion:" \o root.title
               /\ Companion(i).extracted_from = "from export"
                     <=> root.extracted_from = "from export"
               /\ Companion(i).extracted_from = "from dump"
                     <=> root.extracted_from = "from dump"

\* C5: the companion is looked up under 'Flexion:' + the title of the entry,
\* from the network exactly if the entry was made by from_export, and from the
\* dictionary otherwise: if the entry was made by from_dump or by the
\* constructor.
C5_CompanionSource ==
    \A i \in 1..Len(wfs) :
        wfs[i].flexionseite # None
            => /\ Companion(i).title = "Flexion:" \o root.title
               /\ Companion(i).cls = "EntryFlexion"
               /\ Companion(i).extracted_from = "from export"
                     <=> root.extracted_from = "from export"
               /\ Companion(i).extracted_from = "from dump"
                     <=> root.extracted_from \in {"from dump", "None"}

\* a word form of an entry made by the constructor looked its companion up
C5_ConstructedEntry ==
    /\ root.cls = "Entry" /\ root.extracted_from = "None"
    /\ \E i \in 1..Len(wfs) :
          /\ wfs[i].flexionseite # None
          /\ Companion(i).extracted_from = "from dump"
          /\ Companion(i).status = OK

\* a key that inflections(all=False) leaves out
IsRemovedKey(k) == Contains(k, Bild) \/ IsNumeric(k)

\* got is the table full without the items whose key is left out, the others
\* unchanged and in the same order
IsFiltered(got, full) ==
    LET kept == {i \in 1..Len(full) : ~IsRemovedKey(full[i].k)}
    IN  /\ Len(got) = Cardinality(kept)
        /\ \A i \in kept : got[Cardinality({p \in kept : p <= i})] = full[i]

\* C6: what inflections(all=False) returns is what inflections(all=True)
\* returns, table by table in the same order, without the keys that contain
\* 'Bild' or are numeric: no such key is left, and every other item is kept
\* unchanged and in the same order.
C6_InflectionsFiltered ==
    (last.op = "inflections" /\ last.arg = "False")
        => LET full == WordForm_inflections(wfs[last.target], TRUE).val
           IN  /\ Len(last.val) = Len(full)
               /\ \A t \in 1..Len(full) :
                     /\ IsFiltered(last.val[t], full[t])
                     /\ \A j \in 1..Len(last.val[t]) : ~IsRemovedKey(last.val[t][j].k)

\* inflections(all=False) left a key with 'Bild' out of a table and kept another
C6_KeyRemoved ==
    /\ last.op = "inflections" /\ last.arg = "False"
    /\ LET full == WordForm_inflections(wfs[last.target], TRUE).val[1]
       IN  /\ Len(last.val[1]) = 1 /\ Len(full) = 2
           /\ \E j \in 1..2 : Contains(full[j].k, Bild) /\ full[j].k # Bild

\* a call of a memoized accessor: Entry.wordforms, WordForm.pos,
\* WordForm.übersichten_tpls or WordForm.inflections
IsMemoizedCall(c) ==
    \/ c.cls = "Entry" /\ c.op = "wordforms"
    \/ c.cls = "WordForm" /\ c.op \in {"pos", "übersichten_tpls", "inflections"}

\* C7: a memoized accessor called a second time on the same object returns what
\* the first call returned, leaves the object and its status as they were and
\* traverses nothing; a memoized value never changes; and the traversal behind
\* wordforms, pos and übersichten_tpls is made at most once for an object.
C7_MemoizedAccessors ==
    [][/\ (/\ IsMemoizedCall(last) /\ last'.op = last.op /\ last'.cls = last.cls
           /\ last'.target = last.target /\ last'.arg = last.arg)
             => /\ last'.val = last.val /\ last'.trav = 0
                /\ root' = root /\ wfs' = wfs
       /\ (/\ root.cls = "Entry" /\ hasattr(root, <<"_", "wordforms">>)
           /\ IsMemoizedCall(last'))
             => /\ Len(wfs') = Len(wfs)
                /\ \A i \in 1..Len(wfs) : wfs'[i].wordform = wfs[i].wordform
       /\ \A i \in 1..Len(wfs) :
             i <= Len(wfs')
                => /\ hasattr(wfs[i], <<"_", "pos">>) => wfs'[i].pos = wfs[i].pos
                   /\ hasattr(wfs[i], <<"_", "übersichten_tpls">>)
                         => wfs'[i].uebersichten_tpls = wfs[i].uebersichten_tpls
       /\ root'.cls = "Entry" => root'.trav <= 1
       /\ \A i \in 1..Len(wfs') : wfs'[i].trav.wortart <= 1 /\ wfs'[i].trav.uebersicht <= 1
      ]_vars

\* wordforms was called on an entry that had its word forms, and returned them
C7_SecondCall ==
    /\ last.op = "wordforms" /\ last.cached /\ last.trav = 0
    /\ last.val = 2 /\ Len(wfs) = 2 /\ root.trav = 1

\* the status, after the last call, of the object the call was made on
StatusAfter == IF last.cls = "WordForm" THEN wfs[last.target].status ELSE root.status

\* C8: once the status of an Entry, an EntryFlexion or a WordForm is not 'OK',
\* no call makes it 'OK' again: not a call made on the object, and not the rest
\* of a call after an accessor it calls has recorded a failure.
C8_StatusNeverBackToOK ==
    [][/\ (root.cls # "none" /\ root'.cls # "none" /\ root.status # OK) => root'.status # OK
       /\ \A i \in 1..Len(wfs) :
             i <= Len(wfs')
                => /\ wfs[i].status # OK => wfs'[i].status # OK
                   /\ (/\ wfs[i].flexionseite # None /\ wfs'[i].flexionseite # None
                       /\ wfs'[i].serial = wfs[i].serial
                       /\ wfs[i].flexionseite[1].status # OK)
                         => wfs'[i].flexionseite[1].status # OK
       /\ (/\ last'.op # "none" /\ ~last'.raised /\ root'.cls # "none"
           /\ (last'.pre # OK \/ last'.mid # OK))
             => StatusAfter' # OK
      ]_vars

\* pos found one part of speech after flexion_tpls had found two templates
C8_FailureKept ==
    /\ last.op = "pos" /\ last.cls = "EntryFlexion" /\ last.pre = OK
    /\ last.mid = MultipleFlexionTemplates /\ Len(last.val) = 1
    /\ root.status = MultipleFlexionTemplates

ReturnedEmpty == IF last.op = "wordforms" THEN last.val = 0 ELSE last.val = <<>>

\* the accessors that look at the status before they derive their value
ChecksStatus(c) ==
    \/ c.cls = "Entry" /\ c.op = "wordforms"
    \/ c.cls = "EntryFlexion" /\ c.op \in {"pos", "flexion_tpls", "inflections"}
    \/ c.cls = "WordForm" /\ c.op = "inflections_extended"

\* C10 as stated: wordforms of Entry, pos, flexion_tpls and inflections of
\* EntryFlexion and pos, inflections and inflections_extended of WordForm,
\* called on an object whose status is not 'OK', return an empty list or None
\* and traverse nothing.
C10_AllShortCircuit ==
    (/\ ChecksStatus(last) \/ (last.cls = "WordForm" /\ last.op \in {"pos", "inflections"})
     /\ last.pre # OK)
        => ReturnedEmpty /\ last.trav = 0

\* C10: wordforms of Entry, pos, flexion_tpls and inflections of EntryFlexion
\* and inflections_extended of WordForm, called on an object whose status is
\* not 'OK', traverse nothing and look nothing up, and return an empty list
\* unless the value they derive was memoized before the call.
C10_ShortCircuit ==
    (ChecksStatus(last) /\ last.pre # OK)
        => /\ last.trav = 0 /\ last.io = 0
           /\ ~last.cached => ReturnedEmpty

\* wordforms was called on an entry constructed with a status other than 'OK'
\* from a page that has a German section with word forms
C10_WordformsOfFailedEntry ==
    /\ last.op = "wordforms" /\ last.pre # OK /\ ~last.cached
    /\ root.german # None /\ WortartSections(root) # <<>>
    /\ last.val = 0 /\ last.trav = 0
\* C11 as stated: after from_export on Entry or EntryFlexion, a page whose text
\* is not empty but whose namespace is not the one of the class gives an empty
\* text and the status 'No proper wiki namespace found for {title}', and a
\* page without text gives the status 'No content for {title} in exported
\* page'; a page that does not exist raises nothing.
C11_ExportStatus ==
    (last.op = "from_export" /\ root.cls \in {"Entry", "EntryFlexion"})
        => /\ ~last.raised
           /\ (PageExport(root.title).wikitext # <<>>
                  /\ PageExport(root.title).ns # NS(root.cls))
                 => root.text = <<>> /\ root.status = WrongNamespace(root.title)
           /\ PageExport(root.title).wikitext = <<>>
                 => root.status = NoContentExport(root.title)

\* Entry.from_export of a page of namespace 108 leaves the status of
\* _get_section_de
C11_WrongNamespaceOverwritten ==
    /\ last.op = "from_export" /\ root.cls = "Entry" /\ root.title = "Flexion:gehen"
    /\ last.pre = WrongNamespace("Flexion:gehen")
    /\ root.text = <<>>
    /\ root.status = NoSection("Flexion:gehen")
\* the last call was an accessor of the entry or page held
IsRootAccessor ==
    last.cls \in {"Entry", "EntryFlexion"}
        /\ last.op \in {"wordforms", "pos", "flexion_tpls", "inflections"}

\* C12: an Entry or EntryFlexion whose text has no German level-2 section, or
\* more than one, has every derived field empty in every state and after any
\* calls: wordforms, pos, flexion_tpls and inflections() return [], nothing is
\* memoized, and no call raises.
C12_NoSectionNoData ==
    (root.cls \in {"Entry", "EntryFlexion"} /\ Cardinality(GermanHeadings(root.text)) # 1)
        => /\ root.german = None /\ root.status # OK
           /\ wfs = <<>> /\ root.pos = <<>> /\ root.flexion_tpls = <<>>
           /\ root.attrs = {}
           /\ IsRootAccessor => ReturnedEmpty /\ last.trav = 0 /\ ~last.raised

\* inflections() was called on a Flexion page that has templates but no
\* German section
C12_ForeignPage ==
    /\ root.cls = "EntryFlexion" /\ last.op = "inflections"
    /\ GermanHeadings(root.text) = {}
    /\ FilterTemplates(root.text, <<"regelmäßig">>) # <<>>
    /\ last.val = <<>>
\* the category tokens among the matches
DistinctMatches(pos) == {pos[j] : j \in 1..Len(pos)}

\* C13 as stated: EntryFlexion.pos evaluated with status OK sets the status
\* 'No POS found' for no match and 'Multiple POS found' for more than one
\* distinct match, and sets 'Multiple POS found' only when the matches hold
\* more than one distinct category.
C13_MultipleOnlyIfDistinct ==
    (last.cls = "EntryFlexion" /\ last.op = "pos" /\ last.pre = OK /\ ~last.cached)
        => /\ last.val = <<>> => root.status = NoPOS(root.title)
           /\ Cardinality(DistinctMatches(last.val)) > 1
                 => root.status = MultiplePOS(root.title)
           /\ root.status = MultiplePOS(root.title)
                 => Cardinality(DistinctMatches(last.val)) > 1

\* pos found the category Verb in two templates and set 'Multiple POS found'
C13_SameCategoryTwice ==
    /\ last.cls = "EntryFlexion" /\ last.op = "pos" /\ last.pre = OK /\ ~last.cached
    /\ root.title = "Flexion:doppel"
    /\ last.val = <<"Verb", "Verb">>
    /\ root.status = MultiplePOS(root.title)
\* the templates EntryFlexion.flexion_tpls collects from the German section
AllFlexionTemplates == BodyTemplates(GetSections(root.german[1], {}, <<>>, FALSE, FALSE))

\* C14 as stated: for an EntryFlexion whose German section was found,
\* flexion_tpls sets the status 'No German flexion templates' for no template
\* and 'Multiple German flexion templates' for more than one; and once the
\* status is 'Multiple German flexion templates' or 'Multiple POS found',
\* flexion_tpls and inflections() return every template of the body and pos
\* returns every category match, in document order.
C14_DataKept ==
    (last.cls = "EntryFlexion" /\ IsRootAccessor /\ root.german # None)
        => /\ (last.op = "flexion_tpls" /\ last.pre = OK /\ ~last.cached)
                 => /\ last.val = AllFlexionTemplates
                    /\ last.val = <<>> => root.status = NoFlexionTemplates
                    /\ Len(last.val) > 1 => root.status = MultipleFlexionTemplates
           /\ last.pre \in {MultipleFlexionTemplates, MultiplePOS(root.title)}
                 => /\ last.op = "flexion_tpls" => last.val = AllFlexionTemplates
                    /\ last.op = "inflections"
                          => last.val = [i \in 1..Len(AllFlexionTemplates) |->
                                            template_to_dict(AllFlexionTemplates[i])]
                    /\ last.op = "pos" => last.val = CategoryMatches(AllFlexionTemplates)

\* pos was called after flexion_tpls had set 'Multiple German flexion
\* templates', and returned [] for a page whose templates name two categories
C14_PosDiscarded ==
    /\ last.cls = "EntryFlexion" /\ last.op = "pos" /\ root.title = "Flexion:laut"
    /\ last.pre = MultipleFlexionTemplates /\ ~last.cached
    /\ Len(root.flexion_tpls) = 2
    /\ CategoryMatches(root.flexion_tpls) = <<"Adjektiv", "Adverb">>
    /\ last.val = <<>>
\* the indices of the level-3 headings of a section whose title holds Wortart
WortartHeadings(section) ==
    {i \in 1..Len(section) :
        /\ section[i].kind = "heading" /\ section[i].level = 3
        /\ Contains(RenderTitle(section[i]), <<"Wortart">>)}

\* the nodes from the heading at i up to the next heading
FlatSectionAt(section, i) ==
    LET after == {j \in (i + 1)..Len(section) : section[j].kind = "heading"}
    IN  SubSeq(section, i, IF after = {} THEN Len(section)
                           ELSE (CHOOSE j \in after : \A k \in after : j <= k) - 1)

\* C15: wordforms evaluated on an Entry of status OK sets the status 'No
\* German word forms for {title}' and returns [] when the German section has
\* no level-3 Wortart subsection; when it has n >= 1 it returns n WordForms in
\* document order, each of status OK, each referring to this Entry, and leaves
\* the status of the Entry OK; nothing is raised.
C15_WordformsPerSubsection ==
    (last.cls = "Entry" /\ last.op = "wordforms" /\ last.pre = OK /\ ~last.cached)
        => LET hs == WortartHeadings(root.german[1])
           IN  /\ ~last.raised
               /\ last.val = Cardinality(hs) /\ Len(wfs) = Cardinality(hs)
               /\ hs = {} => root.status = NoWordForms(root.title)
               /\ hs # {} => root.status = OK
               /\ \A i \in hs :
                     LET wf == wfs[Cardinality({j \in hs : j <= i})]
                     IN  /\ wf.wordform = FlatSectionAt(root.german[1], i)
                         /\ wf.status = OK
                         /\ wf.entry = root.title

\* wordforms returned the two word forms of a page, the first without its
\* level-4 subsection
C15_TwoWordForms ==
    /\ last.cls = "Entry" /\ last.op = "wordforms" /\ last.pre = OK /\ ~last.cached
    /\ root.title = "sein" /\ Len(wfs) = 2
    /\ Len(wfs[1].wordform) = 2
    /\ RenderTitle(wfs[2].wordform[1]) = RenderTitle(H3(<<"Possessivpronomen">>))
\* C16: pos with an empty result sets the status of that WordForm to 'No POS
\* found for {heading}', and no call on a WordForm (pos, wortart_tpls,
\* übersichten_tpls, inflections, _flexionseite, inflections_extended,
\* other_content_extract) changes the Entry, its status, its memoized word
\* forms, or any other WordForm of the Entry.
C16_WordFormOwnsItsStatus ==
    [][last'.cls = "WordForm"
          => /\ root' = root
             /\ Len(wfs') = Len(wfs)
             /\ \A j \in 1..Len(wfs) : j # last'.target => wfs'[j] = wfs[j]
             /\ wfs'[last'.target].wordform = wfs[last'.target].wordform
             /\ wfs'[last'.target].entry = wfs[last'.target].entry
             /\ (last'.op = "pos" /\ ~last'.cached /\ last'.val = <<>>)
                   => wfs'[last'.target].status
                         = <<"No POS found for ">>
                              \o RenderTitle(FilterHeadings(wfs[last'.target].wordform)[1])
      ]_vars

\* pos found no part of speech for the first of two word forms
C16_NoPOSOfOneForm ==
    /\ last.cls = "WordForm" /\ last.op = "pos" /\ last.target = 1 /\ last.val = <<>>
    /\ Len(wfs) = 2
    /\ wfs[1].status # OK /\ wfs[2].status = OK /\ root.status = OK
\* the statuses the accessors of an EntryFlexion leave on a page constructed
\* with status OK
FlexionStatuses ==
    {OK, NoFlexionTemplates, MultipleFlexionTemplates, NoPOS(root.title),
     MultiplePOS(root.title)}

\* the page held as it was constructed, before any accessor was called
FreshPage ==
    [root EXCEPT !.attrs = {}, !.pos = <<>>, !.flexion_tpls = <<>>, !.trav = 0, !.status = OK]

\* pos on the fresh page, and inflections() after it
PosFirst == EntryFlexion_pos(FreshPage)

ThenInflections == EntryFlexion_inflections(PosFirst.self)

\* C17 as stated: for an EntryFlexion with a German section, once the
\* templates and pos have both been asked for, in whatever order, pos,
\* flexion_tpls, inflections() and the status are those that pos followed by
\* inflections() give.
C17_OrderIndependent ==
    (/\ root.cls = "EntryFlexion" /\ root.german # None /\ root.status \in FlexionStatuses
     /\ hasattr(root, <<"_", "flexion_tpls">>)
     /\ hasattr(root, <<"_", "pos">>) \/ last.op = "pos")
        => /\ root.status = ThenInflections.self.status
           /\ root.flexion_tpls = ThenInflections.self.flexion_tpls
           /\ last.op = "pos" => last.val = PosFirst.val
           /\ last.op = "inflections" => last.val = ThenInflections.val

\* pos, called after flexion_tpls, returned [] for a page on which pos called
\* first returns ['Verb']
C17_OrderMatters ==
    /\ root.cls = "EntryFlexion" /\ root.title = "Flexion:Haus" /\ last.op = "pos"
    /\ hasattr(root, <<"_", "flexion_tpls">>) /\ ~hasattr(root, <<"_", "pos">>)
    /\ last.val = <<>>
    /\ PosFirst.val = <<"Verb">>
\* C18 as stated: every from_dump or get_wikidict made through a class is
\* answered from a dictionary of the namespace of that class: Entry from a
\* wikidict_0, EntryFlexion from a wikidict_108.
C18_OwnNamespace ==
    (last.op \in {"from_dump", "get_wikidict"} /\ ~last.raised)
        => last.val[1][1] = NS(last.cls)

\* EntryFlexion.from_dump was answered from the dictionary of namespace 0 that
\* _EntryBase had loaded, and did not find its page
C18_AnsweredFromBase ==
    /\ last.op = "from_dump" /\ last.cls = "EntryFlexion" /\ ~last.loaded
    /\ WIKIDICT["EntryFlexion"] = None
    /\ WIKIDICT["_EntryBase"] = Some(<<"0", "None">>)
    /\ last.val = Some(<<"0", "None">>)
    /\ root.title = "Flexion:gehen" /\ root.text = <<>>
====
